---- MODULE Spec2Model ----
(***************************************************************************)
(* Backtest engine of trading-kaggle-hackaton: the multi-asset ledger      *)
(* (Trader / MultiBroker), its price book, the portfolio valuation and the *)
(* timestamp-by-timestamp event loops run_backtest (exchange/trade.py) and *)
(* run_multi_backtest (exchange/engine.py).                                *)
(*                                                                         *)
(* Amounts are Python floats in the source.  The model keeps them as exact *)
(* integers counted in units of 1/BPS (one ten-thousandth): quantities are *)
(* whole tokens and closes are whole numbers, so qty * price * fee is an   *)
(* exact number of units and no rounding takes place in execute.  The one  *)
(* float division of the source (the triangulated valuation) truncates.    *)
(***************************************************************************)
EXTENDS Integers, Sequences, FiniteSets, TLC

\* ---------------------------------------------------------------- bounds
\* number of timestamps (Tick Groups) in the tick stream
MaxGroups == 2
\* longest list of orders one on_data call returns
MaxBatch == 2
\* longest equity curve handed to the metrics
MaxSamples == 4

\* ------------------------------------------------------ program constants
\* basis points per unit: fee = args.fee / 10000; also the amount unit
BPS == 10000
\* default trading fee in basis points (--fee default 2.0)
DEFAULT_FEE == 2
\* Python None: price not known yet / callback returned nothing
None == -1
\* the weights of the score, in tenths: 0.7, 0.2 and 0.1
SHARPE_WEIGHT == 7
DRAWDOWN_WEIGHT == 2
TURNOVER_WEIGHT == 1
\* a qty that float() does not accept (a string such as "abc")
NonNumeric == -999999

Assets == {"fiat", "token_1", "token_2"}
Pairs == {"token_1/fiat", "token_2/fiat", "token_1/token_2"}

\* the parts pair.split("/") yields, for the pair strings orders carry
Split(pair) ==
  CASE pair = "token_1/fiat"    -> <<"token_1", "fiat">>
    [] pair = "token_2/fiat"    -> <<"token_2", "fiat">>
    [] pair = "token_1/token_2" -> <<"token_1", "token_2">>
    [] pair = "token_3/fiat"    -> <<"token_3", "fiat">>
    [] pair = "token_1fiat"     -> <<"token_1fiat">>

\* base, quote = pair.split("/")
Base(pair) == IF pair = "token_2/fiat" THEN "token_2" ELSE "token_1"
Quote(pair) == IF pair = "token_1/token_2" THEN "token_2" ELSE "fiat"

\* ------------------------------------------------------------ input sets
\* closes of the data files, by pair and timestamp (whole numbers)
CloseTable ==
  [p \in Pairs |->
     CASE p = "token_1/fiat"    -> <<100, 110, 90, 120>>
       [] p = "token_2/fiat"    -> <<50, 40, 60, 30>>
       [] p = "token_1/token_2" -> <<2, 4, 3, 5>>]
Close(p, ts) == CloseTable[p][((ts - 1) % 4) + 1]

\* the rows of one timestamp, in the order the sorted frame holds them
GroupShapes ==
  { <<"token_1/fiat">>,
    <<"token_1/fiat", "token_2/fiat", "token_1/token_2">>,
    <<"token_1/token_2", "token_1/fiat">> }

Row(p, ts) == [symbol |-> p, close |-> Close(p, ts), timestamp |-> ts]
Group(shape, ts) == [i \in 1..Len(shape) |-> Row(shape[i], ts)]
\* tick streams: up to MaxGroups timestamps, ascending
Streams ==
  UNION { { [ts \in 1..n |-> Group(f[ts], ts)] : f \in [1..n -> GroupShapes] }
          : n \in 1..MaxGroups }

\* initial balances (--fiat_balance, --token1_balance, --token2_balance)
InitialBalances ==
  { [fiat |-> 10000 * BPS, token_1 |-> 0, token_2 |-> 0],
    [fiat |-> 1000200, token_1 |-> 1 * BPS, token_2 |-> 2 * BPS] }

Order(p, s, q) == [pair |-> p, side |-> s, qty |-> q]
\* a strategy module is described by the orders it is able to emit
Strategies ==
  { { Order(p, "buy", 1 * BPS), Order(p, "sell", 1 * BPS) } : p \in Pairs }

\* strategy modules that break the callback contract
\* orders lacking a field, on a pair that may have no price yet
FieldlessOrders ==
  { Order("token_2/fiat", "buy", 1 * BPS),
    [side |-> "buy", qty |-> 1 * BPS],
    [pair |-> "token_2/fiat", qty |-> 1 * BPS],
    [pair |-> "token_2/fiat", side |-> "buy"] }
\* orders with a qty that is no number or a pair string that is no pair
ValuelessOrders ==
  { Order("token_1/fiat", "sell", 1 * BPS),
    Order("token_2/fiat", "buy", NonNumeric),
    Order("token_1fiat", "buy", 1 * BPS),
    Order("token_3/fiat", "buy", 1 * BPS) }
\* orders with a quantity that is not positive
NonPositiveOrders ==
  { Order("token_1/fiat", "buy", 0), Order("token_1/fiat", "buy", -1 * BPS) }
\* the module whose on_data also assigns to the balances mapping it is given
WritingStrategy ==
  { Order("token_1/fiat", "buy", 1 * BPS) }
\* the module whose orders may carry a side that is neither "buy" nor
\* "sell", next to one regular buy
UnknownSideOrders ==
  { Order("token_1/fiat", "hold", 1 * BPS),
    Order("token_1/fiat", "buy", 1 * BPS) }
OtherStrategies ==
  { FieldlessOrders, ValuelessOrders, NonPositiveOrders, WritingStrategy }

RECURSIVE SeqsUpTo(_, _)
SeqsUpTo(S, n) ==
  IF n = 0 THEN { <<>> }
  ELSE LET shorter == SeqsUpTo(S, n - 1)
       IN  shorter \cup { Append(s, x) : s \in { t \in shorter : Len(t) = n - 1 }, x \in S }

\* what on_data may return: None, a list of orders, or one bare order dict
ReturnValues(menu) ==
  { [kind |-> "none", orders |-> <<>>] }
    \cup { [kind |-> "list", orders |-> l] : l \in SeqsUpTo(menu, MaxBatch) }
    \cup { [kind |-> "dict", orders |-> <<o>>] : o \in menu }

Harnesses == {"trade", "engine"}

\* entropy sources: what one process reads from os.urandom differs from
\* what another reads
EntropySources == {1, 2}
\* uuid.uuid4(): the k-th identifier drawn from the source src
uuid4(src, k) == <<src, k>>

\* ------------------------------------------------------------------ state
VARIABLES
  harness,          \* which event loop runs: run_backtest or run_multi_backtest
  strat_mod,        \* the imported strategy module (its order menu)
  strat_writes,     \* whether its on_data assigns to the balances mapping it is given
  urandom,          \* the entropy source uuid.uuid4() draws from in this process
  backtest,         \* what the finished run_backtest left, once score has taken over
  combined_data,    \* the sorted tick stream, grouped by timestamp
  initial_balances, \* balances.copy() taken before the loop
  fee,              \* Trader.fee, basis points
  balances,         \* Trader.balances
  prices,           \* Trader.prices
  first_prices,     \* Trader.first_prices
  first_update,     \* Trader.first_update
  equity_history,   \* Trader.equity_history
  turnover,         \* Trader.turnover
  trade_count,      \* Trader.trade_count
  total_fees_paid,  \* Trader.total_fees_paid
  market_data,      \* the snapshot built for the current timestamp
  actions,          \* the value the last on_data call returned
  returned,         \* history: every value on_data returned, in call order
  result,           \* run_backtest's DataFrame of recorded actions
  arg_balances,     \* history: the balances mapping as handed to the latest on_data call
  res,              \* what the run hands back to its caller
  pc,               \* position in the loop
  gi,               \* index of the current timestamp group
  ri,               \* index of the next row of the group
  ai                \* index of the next action of the batch

ledger == <<balances, turnover, trade_count, total_fees_paid>>
book == <<prices, first_prices, first_update>>
config == <<harness, strat_mod, strat_writes, urandom, backtest, combined_data,
            initial_balances, fee>>
vars == <<harness, strat_mod, strat_writes, urandom, backtest, combined_data,
          initial_balances, fee,
          balances, prices, first_prices, first_update, equity_history, turnover,
          trade_count, total_fees_paid, market_data, actions, returned, result,
          arg_balances, res, pc, gi, ri, ai>>

\* ------------------------------------------------------- PortfolioValuer
\* variant of calculate_portfolio_value: the triangulated branch is an `if`,
\* not an `elif`, so it is added on top of the direct token_2 value
calculate_portfolio_value_blend(bal, pr) ==
  LET v0 == bal["fiat"]
      v1 == IF pr["token_1/fiat"] # None
            THEN v0 + bal["token_1"] * pr["token_1/fiat"]
            ELSE v0
      v2 == IF pr["token_2/fiat"] # None
            THEN v1 + bal["token_2"] * pr["token_2/fiat"]
            ELSE v1
  IN  IF pr["token_1/fiat"] # None /\ pr["token_1/token_2"] # None
      THEN v2 + (bal["token_2"] \div pr["token_1/token_2"]) * pr["token_1/fiat"]
      ELSE v2

calculate_portfolio_value(bal, pr) ==
  LET v0 == bal["fiat"]
      v1 == IF pr["token_1/fiat"] # None
            THEN v0 + bal["token_1"] * pr["token_1/fiat"]
            ELSE v0
  IN  IF pr["token_2/fiat"] # None
      THEN v1 + bal["token_2"] * pr["token_2/fiat"]
      ELSE IF pr["token_1/fiat"] # None /\ pr["token_1/token_2"] # None
           THEN v1 + (bal["token_2"] \div pr["token_1/token_2"]) * pr["token_1/fiat"]
           ELSE v1

\* first close of each symbol in the sorted frame (None: symbol has no rows)
RECURSIVE FirstCloseFrom(_, _, _, _)
FirstCloseFrom(data, p, g, r) ==
  IF g > Len(data) THEN None
  ELSE IF r > Len(data[g]) THEN FirstCloseFrom(data, p, g + 1, 1)
  ELSE IF data[g][r].symbol = p THEN data[g][r].close
  ELSE FirstCloseFrom(data, p, g, r + 1)

data_first_prices(data) == [p \in Pairs |-> FirstCloseFrom(data, p, 1, 1)]

\* the seed of the equity history
initial_portfolio_value(bal, data) ==
  LET fp == data_first_prices(data)
      v0 == bal["fiat"]
      v1 == IF fp["token_1/fiat"] # None /\ bal["token_1"] > 0
            THEN v0 + bal["token_1"] * fp["token_1/fiat"]
            ELSE v0
  IN  IF fp["token_2/fiat"] # None /\ bal["token_2"] > 0
      THEN v1 + bal["token_2"] * fp["token_2/fiat"]
      ELSE v1

\* ---------------------------------------------------------------- Ledger
\* variant of execute_buy: affordability tested against the cost without the fee
execute_buy_nofee_check(led, price, f, order) ==
  LET base == Base(order.pair)
      quote == Quote(order.pair)
      qty == order.qty
      base_cost == qty * price
      fee_amount == (base_cost * f) \div BPS
      total_cost == base_cost + fee_amount
  IN  IF led.balances[quote] >= base_cost
      THEN [balances |->
              [led.balances EXCEPT ![quote] = @ - total_cost, ![base] = @ + qty],
            turnover |-> led.turnover + total_cost,
            total_fees_paid |-> led.total_fees_paid + fee_amount,
            trade_count |-> led.trade_count + 1]
      ELSE led

\* variant of execute_buy: the fee is charged but not added to total_fees_paid
execute_buy_fee_uncounted(led, price, f, order) ==
  LET base == Base(order.pair)
      quote == Quote(order.pair)
      qty == order.qty
      base_cost == qty * price
      fee_amount == (base_cost * f) \div BPS
      total_cost == base_cost + fee_amount
  IN  IF led.balances[quote] >= total_cost
      THEN [balances |->
              [led.balances EXCEPT ![quote] = @ - total_cost, ![base] = @ + qty],
            turnover |-> led.turnover + total_cost,
            total_fees_paid |-> led.total_fees_paid,
            trade_count |-> led.trade_count + 1]
      ELSE led

\* variant of execute_buy: turnover counts the cost without the fee
execute_buy_cost_turnover(led, price, f, order) ==
  LET base == Base(order.pair)
      quote == Quote(order.pair)
      qty == order.qty
      base_cost == qty * price
      fee_amount == (base_cost * f) \div BPS
      total_cost == base_cost + fee_amount
  IN  IF led.balances[quote] >= total_cost
      THEN [balances |->
              [led.balances EXCEPT ![quote] = @ - total_cost, ![base] = @ + qty],
            turnover |-> led.turnover + base_cost,
            total_fees_paid |-> led.total_fees_paid + fee_amount,
            trade_count |-> led.trade_count + 1]
      ELSE led

\* the buy branch of execute, price known
execute_buy(led, price, f, order) ==
  LET base == Base(order.pair)
      quote == Quote(order.pair)
      qty == order.qty
      base_cost == qty * price
      fee_amount == (base_cost * f) \div BPS
      total_cost == base_cost + fee_amount
  IN  IF led.balances[quote] >= total_cost
      THEN [balances |->
              [led.balances EXCEPT ![quote] = @ - total_cost, ![base] = @ + qty],
            turnover |-> led.turnover + total_cost,
            total_fees_paid |-> led.total_fees_paid + fee_amount,
            trade_count |-> led.trade_count + 1]
      ELSE led

\* variant of execute_sell: holdings tested against zero instead of qty
execute_sell_weak_check(led, price, f, order) ==
  LET base == Base(order.pair)
      quote == Quote(order.pair)
      qty == order.qty
  IN  IF led.balances[base] >= 0
      THEN LET base_proceeds == qty * price
               fee_amount == (base_proceeds * f) \div BPS
               net_proceeds == base_proceeds - fee_amount
           IN  [balances |->
                  [led.balances EXCEPT ![quote] = @ + net_proceeds, ![base] = @ - qty],
                turnover |-> led.turnover + base_proceeds,
                total_fees_paid |-> led.total_fees_paid + fee_amount,
                trade_count |-> led.trade_count + 1]
      ELSE led

\* variant of execute_sell: the quote balance is credited the gross proceeds
execute_sell_gross_credit(led, price, f, order) ==
  LET base == Base(order.pair)
      quote == Quote(order.pair)
      qty == order.qty
  IN  IF led.balances[base] >= qty
      THEN LET base_proceeds == qty * price
               fee_amount == (base_proceeds * f) \div BPS
               net_proceeds == base_proceeds - fee_amount
           IN  [balances |->
                  [led.balances EXCEPT ![quote] = @ + base_proceeds, ![base] = @ - qty],
                turnover |-> led.turnover + base_proceeds,
                total_fees_paid |-> led.total_fees_paid + fee_amount,
                trade_count |-> led.trade_count + 1]
      ELSE led

\* variant of execute_sell: turnover counts the net proceeds
execute_sell_net_turnover(led, price, f, order) ==
  LET base == Base(order.pair)
      quote == Quote(order.pair)
      qty == order.qty
  IN  IF led.balances[base] >= qty
      THEN LET base_proceeds == qty * price
               fee_amount == (base_proceeds * f) \div BPS
               net_proceeds == base_proceeds - fee_amount
           IN  [balances |->
                  [led.balances EXCEPT ![quote] = @ + net_proceeds, ![base] = @ - qty],
                turnover |-> led.turnover + net_proceeds,
                total_fees_paid |-> led.total_fees_paid + fee_amount,
                trade_count |-> led.trade_count + 1]
      ELSE led

\* the sell branch of execute, price known
execute_sell(led, price, f, order) ==
  LET base == Base(order.pair)
      quote == Quote(order.pair)
      qty == order.qty
  IN  IF led.balances[base] >= qty
      THEN LET base_proceeds == qty * price
               fee_amount == (base_proceeds * f) \div BPS
               net_proceeds == base_proceeds - fee_amount
           IN  [balances |->
                  [led.balances EXCEPT ![quote] = @ + net_proceeds, ![base] = @ - qty],
                turnover |-> led.turnover + base_proceeds,
                total_fees_paid |-> led.total_fees_paid + fee_amount,
                trade_count |-> led.trade_count + 1]
      ELSE led

\* variant of execute: the test for an unknown price is missing
execute_no_price_check(led, pr, f, order) ==
  LET price == pr[order.pair]
  IN  IF order.side = "buy" THEN execute_buy(led, price, f, order)
      ELSE IF order.side = "sell" THEN execute_sell(led, price, f, order)
      ELSE led

\* variant of execute: trade_count incremented whether or not the order executed
execute_count_always(led, pr, f, order) ==
  LET price == pr[order.pair]
      after == IF price = None THEN led
               ELSE IF order.side = "buy" THEN execute_buy(led, price, f, order)
               ELSE IF order.side = "sell" THEN execute_sell(led, price, f, order)
               ELSE led
  IN  [after EXCEPT !.trade_count = led.trade_count + 1]

\* variant of execute: the second branch is an else, so that every side
\* other than "buy" is taken for a sell
execute_else_sell(led, pr, f, order) ==
  LET price == pr[order.pair]
  IN  IF price = None THEN led
      ELSE IF order.side = "buy" THEN execute_buy(led, price, f, order)
      ELSE execute_sell(led, price, f, order)

\* Trader.execute / MultiBroker.execute on the ledger led, returning the
\* ledger it leaves
execute(led, pr, f, order) ==
  LET price == pr[order.pair]
  IN  IF price = None THEN led
      ELSE IF order.side = "buy" THEN execute_buy(led, price, f, order)
      ELSE IF order.side = "sell" THEN execute_sell(led, price, f, order)
      ELSE led

\* variant of execute_raises: the test for an unknown price comes before the
\* order is taken apart, so a broken order on an unpriced pair is skipped
execute_raises_price_first(pr, order) ==
  \/ "pair" \notin DOMAIN order
  \/ order.pair \notin DOMAIN pr
  \/ /\ pr[order.pair] # None
     /\ \/ "side" \notin DOMAIN order
        \/ "qty" \notin DOMAIN order
        \/ order.qty = NonNumeric
        \/ Len(Split(order.pair)) # 2

\* whether execute raises on the order, before its test of the price:
\* order["pair"], order["side"], float(order["qty"]), the two-name unpacking
\* of pair.split("/"), self.prices[pair]
execute_raises(pr, order) ==
  \/ "pair" \notin DOMAIN order
  \/ "side" \notin DOMAIN order
  \/ "qty" \notin DOMAIN order
  \/ order.qty = NonNumeric
  \/ Len(Split(order.pair)) # 2
  \/ order.pair \notin DOMAIN pr

\* what a call of execute evaluates to: its only return statement is the
\* bare `return` of the unknown price, and otherwise it runs off its end;
\* the flag `executed` it keeps is used to count the trade, never returned
execute_value(led, pr, f, order) == "None"

Ledger == [balances |-> balances, turnover |-> turnover,
           total_fees_paid |-> total_fees_paid, trade_count |-> trade_count]

\* ------------------------------------------------------------------ Init
NoPrices == [p \in Pairs |-> None]

\* nothing handed back yet
NoResult == [status |-> "none"]
\* score has not taken over
NoBacktest == [status |-> "none"]

\* the state in which the timestamp loop is entered, whatever the strategy
StartOfRun ==
  /\ harness \in Harnesses
  /\ backtest = NoBacktest
  /\ combined_data \in Streams
  /\ initial_balances \in InitialBalances
  /\ fee = DEFAULT_FEE
  /\ balances = initial_balances
  /\ prices = NoPrices
  /\ first_prices = NoPrices
  /\ first_update = [p \in Pairs |-> FALSE]
  /\ equity_history = << initial_portfolio_value(initial_balances, combined_data) >>
  /\ turnover = 0
  /\ trade_count = 0
  /\ total_fees_paid = 0
  /\ market_data = NoPrices
  /\ actions = [kind |-> "none", orders |-> <<>>]
  /\ returned = <<>>
  /\ result = <<>>
  /\ arg_balances = initial_balances
  /\ res = NoResult
  /\ pc = "ticks"
  /\ gi = 1
  /\ ri = 1
  /\ ai = 1

\* a run with a strategy that keeps to the callback contract: well-formed
\* orders with qty > 0, and no assignment to the mapping it is given
Init ==
  /\ strat_mod \in Strategies
  /\ strat_writes = FALSE
  /\ urandom = 1
  /\ StartOfRun

\* the same run started in any process: the identifiers uuid4 hands out
\* are not the same from one process to the next
InitAnyProcess ==
  /\ strat_mod \in Strategies
  /\ strat_writes = FALSE
  /\ urandom \in EntropySources
  /\ StartOfRun

\* a run with a strategy that does not keep to it
InitOther ==
  /\ strat_mod \in OtherStrategies
  /\ strat_writes = (strat_mod = WritingStrategy)
  /\ urandom = 1
  /\ StartOfRun

\* a run with the strategy whose orders carry an unknown side
InitUnknownSide ==
  /\ strat_mod = UnknownSideOrders
  /\ strat_writes = FALSE
  /\ urandom = 1
  /\ StartOfRun

\* --------------------------------------------------------------- actions
\* leaving the body of the timestamp loop: next group, or the loop is over
NextGroup ==
  /\ gi' = gi + 1
  /\ ri' = 1
  /\ ai' = 1
  /\ pc' = IF gi = Len(combined_data) THEN "done" ELSE "ticks"

\* variant of UpdateMarket: the equity sample is taken before the price is stored
UpdateMarket_stale_sample ==
  /\ pc = "ticks"
  /\ LET row == combined_data[gi][ri]
         pair == row.symbol
     IN  /\ prices' = [prices EXCEPT ![pair] = row.close]
         /\ first_prices' = IF ~first_update[pair]
                            THEN [first_prices EXCEPT ![pair] = row.close]
                            ELSE first_prices
         /\ first_update' = [first_update EXCEPT ![pair] = TRUE]
         /\ equity_history' =
              Append(equity_history, calculate_portfolio_value(balances, prices))
         /\ market_data' = [(IF ri = 1 THEN NoPrices ELSE market_data)
                              EXCEPT ![pair] = row.close]
  /\ ri' = ri + 1
  /\ pc' = IF ri = Len(combined_data[gi]) THEN "strategy" ELSE "ticks"
  /\ UNCHANGED <<config, ledger, actions, returned, result, arg_balances, res, gi, ai>>

\* variant of UpdateMarket: the callback is reached after the first row of a group
UpdateMarket_first_row_only ==
  /\ pc = "ticks"
  /\ LET row == combined_data[gi][ri]
         pair == row.symbol
         newPrices == [prices EXCEPT ![pair] = row.close]
     IN  /\ prices' = newPrices
         /\ first_prices' = IF ~first_update[pair]
                            THEN [first_prices EXCEPT ![pair] = row.close]
                            ELSE first_prices
         /\ first_update' = [first_update EXCEPT ![pair] = TRUE]
         /\ equity_history' =
              Append(equity_history, calculate_portfolio_value(balances, newPrices))
         /\ market_data' = [(IF ri = 1 THEN NoPrices ELSE market_data)
                              EXCEPT ![pair] = row.close]
  /\ ri' = ri + 1
  /\ pc' = "strategy"
  /\ UNCHANGED <<config, ledger, actions, returned, result, arg_balances, res, gi, ai>>

\* variant of UpdateMarket: first_prices follows every tick
UpdateMarket_overwrites_first ==
  /\ pc = "ticks"
  /\ LET row == combined_data[gi][ri]
         pair == row.symbol
         newPrices == [prices EXCEPT ![pair] = row.close]
     IN  /\ prices' = newPrices
         /\ first_prices' = [first_prices EXCEPT ![pair] = row.close]
         /\ first_update' = [first_update EXCEPT ![pair] = TRUE]
         /\ equity_history' =
              Append(equity_history, calculate_portfolio_value(balances, newPrices))
         /\ market_data' = [(IF ri = 1 THEN NoPrices ELSE market_data)
                              EXCEPT ![pair] = row.close]
  /\ ri' = ri + 1
  /\ pc' = IF ri = Len(combined_data[gi]) THEN "strategy" ELSE "ticks"
  /\ UNCHANGED <<config, ledger, actions, returned, result, arg_balances, res, gi, ai>>

\* variant of UpdateMarket: the flag is raised before it is tested, so the
\* first-seen price is never stored
UpdateMarket_flag_first ==
  /\ pc = "ticks"
  /\ LET row == combined_data[gi][ri]
         pair == row.symbol
         newPrices == [prices EXCEPT ![pair] = row.close]
         flagged == [first_update EXCEPT ![pair] = TRUE]
     IN  /\ prices' = newPrices
         /\ first_prices' = IF ~flagged[pair]
                            THEN [first_prices EXCEPT ![pair] = row.close]
                            ELSE first_prices
         /\ first_update' = flagged
         /\ equity_history' =
              Append(equity_history, calculate_portfolio_value(balances, newPrices))
         /\ market_data' = [(IF ri = 1 THEN NoPrices ELSE market_data)
                              EXCEPT ![pair] = row.close]
  /\ ri' = ri + 1
  /\ pc' = IF ri = Len(combined_data[gi]) THEN "strategy" ELSE "ticks"
  /\ UNCHANGED <<config, ledger, actions, returned, result, arg_balances, res, gi, ai>>

\* one row of the current group: update_market(pair, row)
UpdateMarket ==
  /\ pc = "ticks"
  /\ LET row == combined_data[gi][ri]
         pair == row.symbol
         newPrices == [prices EXCEPT ![pair] = row.close]
     IN  /\ prices' = newPrices
         /\ first_prices' = IF ~first_update[pair]
                            THEN [first_prices EXCEPT ![pair] = row.close]
                            ELSE first_prices
         /\ first_update' = [first_update EXCEPT ![pair] = TRUE]
         /\ equity_history' =
              Append(equity_history, calculate_portfolio_value(balances, newPrices))
         /\ market_data' = [(IF ri = 1 THEN NoPrices ELSE market_data)
                              EXCEPT ![pair] = row.close]
  /\ ri' = ri + 1
  /\ pc' = IF ri = Len(combined_data[gi]) THEN "strategy" ELSE "ticks"
  /\ UNCHANGED <<config, ledger, actions, returned, result, arg_balances, res, gi, ai>>

\* variant of on_data_balances: the callback is given the copy taken before
\* the loop
on_data_balances_initial(current, initial) == initial

\* the second argument of the on_data call: the balances dict the Trader
\* was built on (current), not the copy kept as initial_balances (initial)
on_data_balances(current, initial) == current

\* strat_mod.on_data(market_data, balances) and the test of what it returned
OnData ==
  /\ pc = "strategy"
  /\ balances' = IF strat_writes
                 THEN \* the mapping is the Trader's own dict (self.balances = balances)
                      [balances EXCEPT !["fiat"] = @ + BPS]
                 ELSE balances
  /\ arg_balances' = on_data_balances(balances', initial_balances)
  /\ \E a \in ReturnValues(strat_mod) :
       /\ actions' = a
       /\ returned' = Append(returned, a)
       /\ IF harness = "trade"
          THEN \* if actions is None: continue; for action in actions: ...
               CASE a.kind = "none" -> NextGroup
                 [] a.kind = "list" ->
                      IF Len(a.orders) = 0 THEN NextGroup
                      ELSE pc' = "orders" /\ ai' = 1 /\ UNCHANGED <<gi, ri>>
                 [] a.kind = "dict" ->
                      \* iterating a dict yields its keys; execute("pair") raises
                      pc' = "failed" /\ UNCHANGED <<gi, ri, ai>>
          ELSE \* if action: broker.execute(action)
               CASE a.kind = "none" -> NextGroup
                 [] a.kind = "list" ->
                      IF Len(a.orders) = 0 THEN NextGroup
                      ELSE \* order["pair"] on a list raises
                           pc' = "failed" /\ UNCHANGED <<gi, ri, ai>>
                 [] a.kind = "dict" ->
                      pc' = "orders" /\ ai' = 1 /\ UNCHANGED <<gi, ri>>
  /\ UNCHANGED <<config, turnover, trade_count, total_fees_paid, book,
                 equity_history, market_data, result, res>>

\* variant of Execute: an equity sample is appended after the order
Execute_samples_equity ==
  /\ pc = "orders"
  /\ LET order == actions.orders[ai]
         led == execute(Ledger, prices, fee, order)
     IN  IF execute_raises(prices, order)
         THEN /\ pc' = "failed"
              /\ UNCHANGED <<ledger, result, equity_history, gi, ri, ai>>
         ELSE /\ balances' = led.balances
              /\ turnover' = led.turnover
              /\ total_fees_paid' = led.total_fees_paid
              /\ trade_count' = led.trade_count
              /\ equity_history' =
                   Append(equity_history, calculate_portfolio_value(led.balances, prices))
              /\ result' = IF harness = "trade"
                           THEN Append(result, order @@ [timestamp |-> gi,
                                                        id |-> uuid4(urandom, Len(result) + 1)])
                           ELSE result
              /\ IF ai = Len(actions.orders)
                 THEN NextGroup
                 ELSE ai' = ai + 1 /\ UNCHANGED <<pc, gi, ri>>
  /\ UNCHANGED <<config, book, market_data, actions, returned, arg_balances, res>>

\* trader.execute(action) for the next action of the batch
Execute ==
  /\ pc = "orders"
  /\ LET order == actions.orders[ai]
         led == execute(Ledger, prices, fee, order)
     IN  IF execute_raises(prices, order)
         THEN \* the exception leaves the loop and the function
              /\ pc' = "failed"
              /\ UNCHANGED <<ledger, result, gi, ri, ai>>
         ELSE /\ balances' = led.balances
              /\ turnover' = led.turnover
              /\ total_fees_paid' = led.total_fees_paid
              /\ trade_count' = led.trade_count
              /\ result' = IF harness = "trade"
                           THEN Append(result, order @@ [timestamp |-> gi,
                                                        id |-> uuid4(urandom, Len(result) + 1)])
                           ELSE result
              /\ IF ai = Len(actions.orders)
                 THEN NextGroup
                 ELSE ai' = ai + 1 /\ UNCHANGED <<pc, gi, ri>>
  /\ UNCHANGED <<config, book, equity_history, market_data, actions, returned,
                 arg_balances, res>>

\* the buy-and-hold value reported by run_multi_backtest
hodl_value(init_bal, pr) ==
  LET v0 == init_bal["fiat"]
      v1 == IF pr["token_1/fiat"] # None /\ init_bal["token_1"] > 0
            THEN v0 + init_bal["token_1"] * pr["token_1/fiat"]
            ELSE v0
  IN  IF pr["token_2/fiat"] # None /\ init_bal["token_2"] > 0
      THEN v1 + init_bal["token_2"] * pr["token_2/fiat"]
      ELSE v1

\* after the loop: run_backtest returns its frame of recorded actions,
\* run_multi_backtest computes and returns its results
\* (the Sharpe and drawdown entries are not part of this record)
Finalize ==
  /\ pc = "done"
  /\ res' = IF harness = "trade"
            THEN [status |-> "ok", trades |-> result]
            ELSE LET initial_equity == equity_history[1]
                     final_equity == equity_history[Len(equity_history)]
                     hodl == hodl_value(initial_balances, prices)
                 IN  [status |-> "ok",
                      turnover |-> turnover,
                      absolute_pnl |-> final_equity - initial_equity,
                      initial_equity |-> initial_equity,
                      final_equity |-> final_equity,
                      initial_balances |-> initial_balances,
                      final_balances |-> balances,
                      total_fees_paid |-> total_fees_paid,
                      trade_count |-> trade_count,
                      current_prices |-> prices,
                      hodl_absolute_pnl |-> hodl - initial_equity,
                      hodl_value |-> hodl]
  /\ pc' = "reported"
  /\ UNCHANGED <<config, ledger, book, equity_history, market_data, actions,
                 returned, result, arg_balances, gi, ri, ai>>

Next == UpdateMarket \/ OnData \/ Execute \/ Finalize

\* ------------------------------------------- the valuer taken on its own
\* balances and price books calculate_portfolio_value is applied to
ValuerBalances ==
  [Assets -> {0, 3 * BPS}]
ValuerBooks ==
  { [p \in Pairs |-> IF p \in known THEN Close(p, ts) ELSE None]
      : known \in SUBSET Pairs, ts \in 1..2 }

InitValuer ==
  /\ harness = "trade"
  /\ strat_mod = {}
  /\ strat_writes = FALSE
  /\ urandom = 1
  /\ backtest = NoBacktest
  /\ combined_data = <<>>
  /\ initial_balances \in ValuerBalances
  /\ fee = DEFAULT_FEE
  /\ balances = initial_balances
  /\ prices \in ValuerBooks
  /\ first_prices = prices
  /\ first_update = [p \in Pairs |-> prices[p] # None]
  /\ equity_history = <<>>
  /\ turnover = 0
  /\ trade_count = 0
  /\ total_fees_paid = 0
  /\ market_data = NoPrices
  /\ actions = [kind |-> "none", orders |-> <<>>]
  /\ returned = <<>>
  /\ result = <<>>
  /\ arg_balances = initial_balances
  /\ res = NoResult
  /\ pc = "value"
  /\ gi = 1
  /\ ri = 1
  /\ ai = 1

\* equity = self.calculate_portfolio_value(); self.equity_history.append(equity)
ValuePortfolio ==
  /\ pc = "value"
  /\ equity_history' = Append(equity_history, calculate_portfolio_value(balances, prices))
  /\ pc' = "valued"
  /\ UNCHANGED <<config, ledger, book, market_data, actions, returned, result,
                 arg_balances, res, gi, ri, ai>>

NextValuer == ValuePortfolio

SpecValuer == InitValuer /\ [][NextValuer]_vars

\* ---------------------------------------------- the metrics on their own
\* fractions are pairs <<numerator, denominator>> with denominator > 0
\* np.maximum.accumulate(equity)
maximum_accumulate(equity) ==
  [t \in 1..Len(equity) |->
     CHOOSE m \in { equity[i] : i \in 1..t } : \A i \in 1..t : equity[i] <= m]

\* variant of max_drawdown: measured from the highest value of the whole
\* curve, not from the running maximum
max_drawdown_global_peak(equity) ==
  LET n == Len(equity)
      peak == maximum_accumulate(equity)[n]
      dd == [t \in 1..n |-> <<equity[t] - peak, peak>>]
  IN  dd[CHOOSE t \in 1..n : \A u \in 1..n : dd[t][1] * dd[u][2] <= dd[u][1] * dd[t][2]]

\* max_drawdown(equity): dd = (equity - cummax) / cummax; dd.min()
max_drawdown(equity) ==
  LET n == Len(equity)
      cummax == maximum_accumulate(equity)
      dd == [t \in 1..n |-> <<equity[t] - cummax[t], cummax[t]>>]
  IN  dd[CHOOSE t \in 1..n : \A u \in 1..n : dd[t][1] * dd[u][2] <= dd[u][1] * dd[t][2]]

\* rets = np.diff(equity_curve) / equity_curve[:-1]
diff_over_previous(equity) ==
  [t \in 1..(Len(equity) - 1) |-> <<equity[t + 1] - equity[t], equity[t]>>]

RECURSIVE DenominatorProduct(_, _)
DenominatorProduct(fracs, t) ==
  IF t > Len(fracs) THEN 1 ELSE fracs[t][2] * DenominatorProduct(fracs, t + 1)
RECURSIVE SumUpTo(_, _)
SumUpTo(f, t) == IF t = 0 THEN 0 ELSE f[t] + SumUpTo(f, t - 1)

\* what numpy yields where a mean or a deviation has nothing to divide by
NaN == [nan |-> TRUE]

\* sharpe(returns), risk_free = 0: the mean of an empty array and the
\* ddof=1 deviation of fewer than two values are nan, and nan goes through
\* the quotient; else the value sqrt(525600) * mean / (sqrt(variance) + 1e-9),
\* kept as the exact mean and variance it is made of
sharpe(returns) ==
  LET n == Len(returns)
      D == DenominatorProduct(returns, 1)
      num == [t \in 1..n |-> returns[t][1] * (D \div returns[t][2])]
      total == SumUpTo(num, n)
      dev2 == [t \in 1..n |-> (n * num[t] - total) * (n * num[t] - total)]
  IN  IF n < 2 THEN NaN
      ELSE [nan |-> FALSE,
            mean |-> <<total, n * D>>,
            variance |-> <<SumUpTo(dev2, n), (n * D) * (n * D) * (n - 1)>>]

\* equity curves the metrics are applied to: positive values
EquityCurves ==
  UNION { [1..n -> {1, 2, 3}] : n \in 1..MaxSamples }

InitMetrics ==
  /\ harness = "engine"
  /\ strat_mod = {}
  /\ strat_writes = FALSE
  /\ urandom = 1
  /\ backtest = NoBacktest
  /\ combined_data = <<>>
  /\ initial_balances = [a \in Assets |-> 0]
  /\ fee = DEFAULT_FEE
  /\ balances = initial_balances
  /\ prices = NoPrices
  /\ first_prices = NoPrices
  /\ first_update = [p \in Pairs |-> FALSE]
  /\ equity_history \in EquityCurves
  /\ turnover = 0
  /\ trade_count = 0
  /\ total_fees_paid = 0
  /\ market_data = NoPrices
  /\ actions = [kind |-> "none", orders |-> <<>>]
  /\ returned = <<>>
  /\ result = <<>>
  /\ arg_balances = initial_balances
  /\ res = NoResult
  /\ pc = "metrics"
  /\ gi = 1
  /\ ri = 1
  /\ ai = 1

\* the "sharpe" and "max_dd" entries of the results of run_multi_backtest
ComputeMetrics ==
  /\ pc = "metrics"
  /\ res' = [status |-> "ok",
             sharpe |-> sharpe(diff_over_previous(equity_history)),
             max_dd |-> max_drawdown(equity_history)]
  /\ pc' = "measured"
  /\ UNCHANGED <<config, ledger, book, equity_history, market_data, actions,
                 returned, result, arg_balances, gi, ri, ai>>

NextMetrics == ComputeMetrics

SpecMetrics == InitMetrics /\ [][NextMetrics]_vars

\* ------------------------------------------------- the score on its own
\* sharpe and max_dd are in millionths, turnover in the ledger's unit of
\* 1/BPS, and the score in units of 1/10,000,000: a tenth (the weights are
\* in tenths) of a millionth (turnover is divided by 1e6)
abs(x) == IF x < 0 THEN -x ELSE x

\* variant of score: the drawdown enters with its sign
score_signed_drawdown(sh, dd, to) ==
  LET sharpe_component == SHARPE_WEIGHT * sh
      drawdown_component == DRAWDOWN_WEIGHT * dd
      turnover_component == TURNOVER_WEIGHT * (to \div BPS)
  IN  sharpe_component - drawdown_component - turnover_component

\* score = sharpe_component - drawdown_component - turnover_component
score(sh, dd, to) ==
  LET sharpe_component == SHARPE_WEIGHT * sh
      drawdown_component == DRAWDOWN_WEIGHT * abs(dd)
      turnover_component == TURNOVER_WEIGHT * (to \div BPS)
  IN  sharpe_component - drawdown_component - turnover_component

\* results the score is computed from
SharpeInputs == {-1500000, 0, 800000, 2500000}
DrawdownInputs == {-900000, -500000, -100000, 0}
TurnoverInputs == {0, 1 * BPS, 250 * BPS, 100000 * BPS}

InitScoring ==
  /\ harness = "engine"
  /\ strat_mod = {}
  /\ strat_writes = FALSE
  /\ urandom = 1
  /\ backtest = NoBacktest
  /\ combined_data = <<>>
  /\ initial_balances = [a \in Assets |-> 0]
  /\ fee = DEFAULT_FEE
  /\ balances = initial_balances
  /\ prices = NoPrices
  /\ first_prices = NoPrices
  /\ first_update = [p \in Pairs |-> FALSE]
  /\ equity_history = <<>>
  /\ turnover = 0
  /\ trade_count = 0
  /\ total_fees_paid = 0
  /\ market_data = NoPrices
  /\ actions = [kind |-> "none", orders |-> <<>>]
  /\ returned = <<>>
  /\ result = <<>>
  /\ arg_balances = initial_balances
  /\ res \in [sharpe : SharpeInputs, max_dd : DrawdownInputs, turnover : TurnoverInputs]
  /\ pc = "score"
  /\ gi = 1
  /\ ri = 1
  /\ ai = 1

\* main: res["score"] = score, computed from res["sharpe"], res["max_dd"]
\* and res["turnover"]
ScoreResult ==
  /\ pc = "score"
  /\ res' = [score |-> score(res.sharpe, res.max_dd, res.turnover)] @@ res
  /\ pc' = "scored"
  /\ UNCHANGED <<config, ledger, book, equity_history, market_data, actions,
                 returned, result, arg_balances, gi, ri, ai>>

NextScoring == ScoreResult

SpecScoring == InitScoring /\ [][NextScoring]_vars

Spec == Init /\ [][Next]_vars

\* ------------------------------------- score.py on the output of trade.py
\* the frame run_backtest returned, written by to_csv(index=False) and read
\* back by read_csv: the rows with the columns id, timestamp, pair, side, qty
submission == res.trades

\* score(solution, submission, ...) is entered with the data, fee and
\* balances of the run_backtest that wrote the submission: a fresh Trader,
\* the given balances, and the seeded equity history
ScoreStart ==
  /\ pc = "reported"
  /\ harness = "trade"
  /\ backtest' = [status |-> "kept",
                  balances |-> balances,
                  turnover |-> turnover,
                  total_fees_paid |-> total_fees_paid,
                  trade_count |-> trade_count,
                  equity_history |-> equity_history]
  /\ harness' = "score"
  /\ balances' = initial_balances
  /\ prices' = NoPrices
  /\ first_prices' = NoPrices
  /\ first_update' = [p \in Pairs |-> FALSE]
  /\ equity_history' = << initial_portfolio_value(initial_balances, combined_data) >>
  /\ turnover' = 0
  /\ trade_count' = 0
  /\ total_fees_paid' = 0
  /\ pc' = "score_ticks"
  /\ gi' = 1
  /\ ri' = 1
  /\ ai' = 1
  /\ UNCHANGED <<strat_mod, strat_writes, urandom, combined_data, initial_balances,
                 fee, market_data, actions, returned, result, arg_balances, res>>

\* leaving the body of score's timestamp loop
ScoreNextGroup ==
  /\ gi' = gi + 1
  /\ ri' = 1
  /\ ai' = 1
  /\ pc' = IF gi = Len(combined_data) THEN "scored" ELSE "score_ticks"

\* one row of the current group: trader.update_market(row["symbol"], row)
ScoreUpdateMarket ==
  /\ pc = "score_ticks"
  /\ LET row == combined_data[gi][ri]
         pair == row.symbol
         newPrices == [prices EXCEPT ![pair] = row.close]
     IN  /\ prices' = newPrices
         /\ first_prices' = IF ~first_update[pair]
                            THEN [first_prices EXCEPT ![pair] = row.close]
                            ELSE first_prices
         /\ first_update' = [first_update EXCEPT ![pair] = TRUE]
         /\ equity_history' =
              Append(equity_history, calculate_portfolio_value(balances, newPrices))
  /\ IF ri < Len(combined_data[gi])
     THEN ri' = ri + 1 /\ UNCHANGED <<pc, gi, ai>>
     ELSE IF Len(submission) = 0
          THEN ScoreNextGroup
          ELSE pc' = "score_orders" /\ ai' = 1 /\ ri' = ri + 1 /\ UNCHANGED gi
  /\ UNCHANGED <<config, ledger, market_data, actions, returned, result,
                 arg_balances, res>>

\* for _, row in submission.iterrows(): trader.execute(row.to_dict()),
\* inside the timestamp loop
ScoreExecute ==
  /\ pc = "score_orders"
  /\ LET order == submission[ai]
         led == execute(Ledger, prices, fee, order)
     IN  IF execute_raises(prices, order)
         THEN /\ pc' = "failed"
              /\ UNCHANGED <<ledger, gi, ri, ai>>
         ELSE /\ balances' = led.balances
              /\ turnover' = led.turnover
              /\ total_fees_paid' = led.total_fees_paid
              /\ trade_count' = led.trade_count
              /\ IF ai = Len(submission)
                 THEN ScoreNextGroup
                 ELSE ai' = ai + 1 /\ UNCHANGED <<pc, gi, ri>>
  /\ UNCHANGED <<config, book, equity_history, market_data, actions, returned,
                 result, arg_balances, res>>

InitScore ==
  /\ Init
  /\ harness = "trade"

NextScore == Next \/ ScoreStart \/ ScoreUpdateMarket \/ ScoreExecute

\* run_backtest, then score on what it wrote
SpecScore == InitScore /\ [][NextScore]_vars

\* the same loops driven by the strategies of OtherStrategies
SpecOther == InitOther /\ [][Next]_vars

\* the same loops, driven by the strategy whose orders carry an unknown side
SpecUnknownSide == InitUnknownSide /\ [][Next]_vars

\* the loops are single-threaded and nothing blocks: a statement that can
\* run does run
SpecLive == Init /\ [][Next]_vars /\ WF_vars(Next)

\* runs in any process
SpecAnyProcess == InitAnyProcess /\ [][Next]_vars

\* ================================================================ claims
\* the order execute is about to be called with
CurOrder == actions.orders[ai]
\* cost, fee and total of an order at the current price, as the claims word them
CostOf(o) == o.qty * prices[o.pair]
FeeOf(o) == (CostOf(o) * fee) \div BPS
TotalOf(o) == CostOf(o) + FeeOf(o)
Last(s) == s[Len(s)]

\* C1: balance non-negativity.  After every step every asset balance is
\* >= 0, and a call of execute either leaves the ledger untouched or moves
\* both legs of the order and counts the trade: never one without the other.
C1_BalanceNonNegative ==
  [][ /\ \A a \in Assets : balances'[a] >= 0
      /\ pc = "orders" =>
           \/ UNCHANGED ledger
           \/ /\ balances'[Base(CurOrder.pair)] # balances[Base(CurOrder.pair)]
              /\ balances'[Quote(CurOrder.pair)] # balances[Quote(CurOrder.pair)]
              /\ trade_count' = trade_count + 1 ]_vars

\* C1 witness: a buy that spent the whole quote balance has been applied
C1_Witness ==
  /\ trade_count >= 1
  /\ balances["fiat"] = 0
  /\ balances["token_1"] > 0

\* an order execute rejects: price unknown, buy not affordable, or sell
\* of more than is held
Rejected(o) ==
  \/ prices[o.pair] = None
  \/ o.side = "buy" /\ TotalOf(o) > balances[Quote(o.pair)]
  \/ o.side = "sell" /\ o.qty > balances[Base(o.pair)]

\* C2: rejection is a no-op.  A call of execute with a rejected order leaves
\* balances, turnover, fees paid, trade count, prices and the equity history
\* as they were, and the run goes on.
C2_RejectionNoOp ==
  [][ (pc = "orders" /\ Rejected(CurOrder)) =>
        /\ UNCHANGED <<ledger, book, equity_history>>
        /\ pc' \in {"orders", "ticks", "done"} ]_vars

\* C2 witness: run_backtest has processed an order that did not execute
\* although its pair was priced
C2_Witness ==
  /\ harness = "trade"
  /\ pc = "orders"
  /\ ai = 2
  /\ Len(result) = 1
  /\ prices[result[1].pair] # None
  /\ trade_count = 0

\* C3: buy law.  A buy at a known price executes iff balances[quote] >= total
\* (equality executes); then quote -= total, base += qty, turnover += total,
\* fees += fee, trade count += 1; otherwise nothing changes.  The worked
\* example: fiat 10000, price 100, fee 2 bps, qty 1.
C3_BuyLaw ==
  [][ (pc = "orders" /\ CurOrder.side = "buy" /\ prices[CurOrder.pair] # None) =>
        LET o == CurOrder
            q == Quote(o.pair)
            b == Base(o.pair)
        IN  /\ IF balances[q] >= TotalOf(o)
               THEN /\ balances' = [balances EXCEPT ![q] = @ - TotalOf(o),
                                                    ![b] = @ + o.qty]
                    /\ turnover' = turnover + TotalOf(o)
                    /\ total_fees_paid' = total_fees_paid + FeeOf(o)
                    /\ trade_count' = trade_count + 1
               ELSE UNCHANGED ledger
            /\ ( /\ balances = [fiat |-> 100000000, token_1 |-> 0, token_2 |-> 0]
                 /\ o = Order("token_1/fiat", "buy", 10000)
                 /\ prices["token_1/fiat"] = 100 /\ fee = 2
                 /\ turnover = 0 /\ total_fees_paid = 0 /\ trade_count = 0 )
               => /\ balances' = [fiat |-> 98999800, token_1 |-> 10000, token_2 |-> 0]
                  /\ turnover' = 1000200
                  /\ total_fees_paid' = 200
                  /\ trade_count' = 1 ]_vars

\* C3 witness: the worked example has executed
C3_Witness ==
  /\ balances = [fiat |-> 98999800, token_1 |-> 10000, token_2 |-> 0]
  /\ turnover = 1000200
  /\ total_fees_paid = 200
  /\ trade_count = 1

\* C3 witness of the boundary: a buy whose total equalled the balance executed
C3_WitnessEquality ==
  /\ initial_balances["fiat"] = 1000200
  /\ balances["fiat"] = 0
  /\ balances["token_1"] = initial_balances["token_1"] + 10000
  /\ trade_count = 1

\* C4: sell law.  A sell at a known price executes iff balances[base] >= qty;
\* then quote += proceeds - fee, base -= qty, turnover += gross proceeds,
\* fees += fee, trade count += 1; otherwise nothing changes.
C4_SellLaw ==
  [][ (pc = "orders" /\ CurOrder.side = "sell" /\ prices[CurOrder.pair] # None) =>
        LET o == CurOrder
            q == Quote(o.pair)
            b == Base(o.pair)
        IN  IF balances[b] >= o.qty
            THEN /\ balances' = [balances EXCEPT ![q] = @ + (CostOf(o) - FeeOf(o)),
                                                 ![b] = @ - o.qty]
                 /\ turnover' = turnover + CostOf(o)
                 /\ total_fees_paid' = total_fees_paid + FeeOf(o)
                 /\ trade_count' = trade_count + 1
            ELSE UNCHANGED ledger ]_vars

\* C4 witness: one token_1 sold at 110: proceeds 110, fee 0.022, net 109.978
C4_Witness ==
  /\ trade_count = 1
  /\ turnover = 1100000
  /\ total_fees_paid = 220
  /\ balances["token_1"] = initial_balances["token_1"] - 10000
  /\ balances["fiat"] = initial_balances["fiat"] + 1099780

\* C5: no trade without price history.  While no tick of a pair has been
\* ingested, a call of execute with an order on that pair changes no balance
\* and no counter, whatever the balances are.
C5_NoTradeWithoutPrice ==
  [][ (pc = "orders" /\ ~first_update[CurOrder.pair]) => UNCHANGED ledger ]_vars

\* C5 witness: run_backtest processed a sell on a pair that has no tick yet
\* while the holdings covered it, and nothing was traded
C5_Witness ==
  /\ harness = "trade"
  /\ trade_count = 0
  /\ \E i \in 1..Len(result) :
       /\ ~first_update[result[i].pair]
       /\ result[i].side = "sell"
       /\ balances[Base(result[i].pair)] >= result[i].qty

\* number of Tick Groups whose rows have all been ingested
GroupsIngested ==
  IF pc = "ticks" THEN gi - 1
  ELSE IF pc \in {"done", "reported"} THEN Len(combined_data)
  ELSE gi

\* C6: one equity sample per Tick Group.  Whenever no group is half
\* ingested, the equity sequence has 1 + k entries, k the number of groups
\* ingested, however many pairs tick at a timestamp.
C6_OneSamplePerGroup ==
  (pc # "ticks" \/ ri = 1) => Len(equity_history) = 1 + GroupsIngested

\* the price book once every row of the current group has been applied
BookAfterGroup ==
  LET group == combined_data[gi]
  IN  [p \in Pairs |->
         IF \E r \in 1..Len(group) : group[r].symbol = p
         THEN (CHOOSE row \in { group[r] : r \in 1..Len(group) } : row.symbol = p).close
         ELSE prices[p]]

\* C7: Tick Groups are applied atomically.  Every equity sample appended
\* while streaming is the portfolio value at the price book with all rows
\* of its group applied, never at a book with only some of them.
C7_AtomicTickGroups ==
  [][ pc = "ticks" =>
        Last(equity_history') = calculate_portfolio_value(balances, BookAfterGroup) ]_vars

\* the end-to-end scenario: fiat 10000, fee 2 bps, token_1/fiat at 100 then
\* 110, one buy of qty 1 returned at the first timestamp, nothing at the
\* second, run complete
C8_Scenario ==
  /\ pc = "done"
  /\ initial_balances = [fiat |-> 100000000, token_1 |-> 0, token_2 |-> 0]
  /\ fee = 2
  /\ combined_data = << << [symbol |-> "token_1/fiat", close |-> 100, timestamp |-> 1] >>,
                        << [symbol |-> "token_1/fiat", close |-> 110, timestamp |-> 2] >> >>
  /\ Len(returned) = 2
  /\ returned[1].orders = << Order("token_1/fiat", "buy", 10000) >>
  /\ returned[2].orders = << >>

\* C8 as stated: in the scenario the equity sequence is
\* [10000, 9999.98, 10009.98]
C8_EndToEnd_AsStated ==
  C8_Scenario => equity_history = << 100000000, 99999800, 100099800 >>

\* C8, amended: in the scenario the equity sequence is
\* [10000, 10000, 10009.98]: the sample of the first timestamp is taken
\* before the callback, so it does not show the buy
C8_EndToEnd ==
  C8_Scenario => equity_history = << 100000000, 100000000, 100099800 >>

\* C8 witness: the scenario has run to its end and the buy executed
C8_Witness ==
  /\ C8_Scenario
  /\ trade_count = 1
  /\ balances["token_1"] = 10000

\* C9: sequential order application.  A non-empty list of orders returned by
\* the callback is applied starting with its first order; each call of
\* execute applies the next order of the list to the ledger the earlier
\* ones left, and the remaining orders follow in the order returned.
C9_SequentialOrders ==
  [][ /\ (pc = "strategy" /\ actions'.kind = "list" /\ Len(actions'.orders) > 0) =>
           (pc' = "orders" /\ ai' = 1)
      /\ pc = "orders" =>
           /\ Ledger' = execute(Ledger, prices, fee, actions.orders[ai])
           /\ ai < Len(actions.orders) =>
                (pc' = "orders" /\ ai' = ai + 1 /\ actions' = actions) ]_vars

\* C10: step order within a Tick Group.  The callback is invoked once per
\* group, after all rows of the group are in the price book and the equity
\* sample of the group is taken, and before any of its orders is applied;
\* the ledger changes only by applying an order of the value the callback of
\* the current group returned.
C10_StepOrder ==
  /\ [] /\ pc = "ticks" => Len(returned) = gi - 1
        /\ pc = "strategy" => Len(returned) = gi - 1
        /\ pc = "orders" => (Len(returned) = gi /\ actions = returned[gi])
        /\ pc = "done" => Len(returned) = Len(combined_data)
  /\ [][ /\ returned' # returned =>
              /\ Len(returned') = Len(returned) + 1
              /\ \A r \in 1..Len(combined_data[gi]) :
                   LET row == combined_data[gi][r]
                   IN  prices[row.symbol] = row.close /\ market_data[row.symbol] = row.close
              /\ Last(equity_history) = calculate_portfolio_value(balances, prices)
              /\ UNCHANGED ledger
         /\ ledger' # ledger =>
              /\ pc = "orders"
              /\ Len(returned) = gi
              /\ UNCHANGED returned
              /\ Ledger' = execute(Ledger, prices, fee, returned[gi].orders[ai]) ]_vars

\* C10 witness: a run over two timestamps, the first with three rows, is
\* complete; both callbacks were made and an order was applied
C10_Witness ==
  /\ pc = "done"
  /\ Len(combined_data) = 2
  /\ Len(combined_data[1]) = 3
  /\ Len(returned) = 2
  /\ trade_count >= 1

\* the value the valuation contract gives the balances bal at the book pr
ContractValue(bal, pr) ==
  LET p1 == pr["token_1/fiat"]
      p2 == pr["token_2/fiat"]
      p12 == pr["token_1/token_2"]
      token_1_part == IF p1 # None THEN bal["token_1"] * p1 ELSE 0
      direct == bal["token_2"] * p2
      triangulated == (bal["token_2"] \div p12) * p1
      token_2_part == IF p2 # None THEN direct
                      ELSE IF p1 # None /\ p12 # None THEN triangulated
                      ELSE 0
  IN  bal["fiat"] + token_1_part + token_2_part

\* C11: portfolio valuation.  For every balance and every combination of
\* known and unknown prices the valuer returns fiat, plus token_1 at its
\* direct price if known, plus token_2 at its direct price if known, else
\* triangulated through token_1 if both of those prices are known, else
\* nothing; with the direct price known the triangulated value is not used.
C11_PortfolioValuation ==
  pc = "valued" => Last(equity_history) = ContractValue(balances, prices)

\* C11 witness: token_2 holdings valued with all three prices known, where
\* the direct and the triangulated value differ
C11_Witness ==
  /\ pc = "valued"
  /\ balances["token_2"] > 0
  /\ \A p \in Pairs : prices[p] # None
  /\ balances["token_2"] * prices["token_2/fiat"]
       # (balances["token_2"] \div prices["token_1/token_2"]) * prices["token_1/fiat"]
  /\ Last(equity_history) = balances["fiat"]
                            + balances["token_1"] * prices["token_1/fiat"]
                            + balances["token_2"] * prices["token_2/fiat"]

\* C11 witness of the fallback: token_2 holdings valued through token_1
C11_WitnessTriangulated ==
  /\ pc = "valued"
  /\ balances["token_2"] > 0
  /\ prices["token_2/fiat"] = None
  /\ prices["token_1/fiat"] # None /\ prices["token_1/token_2"] # None
  /\ Last(equity_history) > balances["fiat"] + balances["token_1"] * prices["token_1/fiat"]

\* C12: seed equity sample.  The first element of the equity sequence is the
\* valuer's value of the initial balances at the book of first tick prices
\* (pairs without data unpriced), the triangulated valuation of token_2
\* included.
C12_SeedEquity ==
  equity_history[1] =
    calculate_portfolio_value(initial_balances, data_first_prices(combined_data))

\* C13: HODL baseline.  The reported hodl_value is the valuer's value of the
\* initial balances at the final prices, the triangulated valuation of
\* token_2 included, whatever orders were executed.
C13_HodlBaseline ==
  (pc = "reported" /\ harness = "engine") =>
    res.hodl_value = calculate_portfolio_value(initial_balances, prices)

\* an order the claims call malformed: a field is missing, the qty is not
\* numeric, or the pair string is not one of the known pairs
Malformed(o) ==
  \/ "pair" \notin DOMAIN o
  \/ "side" \notin DOMAIN o
  \/ "qty" \notin DOMAIN o
  \/ o.qty = NonNumeric
  \/ o.pair \notin Pairs

\* C14: malformed orders are fatal.  A call of execute with an order that
\* lacks pair, side or qty, whose qty is not numeric or whose pair string is
\* not a known pair raises: the run ends there, nothing is applied or
\* recorded and no run result is produced, also when the named pair has no
\* price yet; the order is never skipped.
C14_MalformedFatal ==
  [][ /\ (pc = "orders" /\ Malformed(CurOrder)) =>
           /\ pc' = "failed"
           /\ UNCHANGED <<ledger, book, equity_history, result, res>>
      /\ pc # "failed"
      /\ pc' = "failed" => res' = NoResult ]_vars

\* C14 witness: run_backtest has ended on an order without qty whose pair
\* has no price, reached after a well-formed order of the same batch
C14_Witness ==
  /\ pc = "failed"
  /\ harness = "trade"
  /\ ai = 2
  /\ "qty" \notin DOMAIN CurOrder
  /\ prices[CurOrder.pair] = None
  /\ Len(result) = 1
  /\ res = NoResult

\* C14 witness: run_multi_backtest has ended on an order naming an unknown pair
C14_WitnessUnknownPair ==
  /\ pc = "failed"
  /\ harness = "engine"
  /\ actions.kind = "dict"
  /\ "pair" \in DOMAIN CurOrder
  /\ CurOrder.pair = "token_3/fiat"
  /\ res = NoResult

\* C15: orders have quantity > 0.  A call of execute with an order whose qty
\* is <= 0 changes no balance, nor turnover, fees paid or trade count.
C15_PositiveQuantity ==
  [][ (pc = "orders" /\ ~Malformed(CurOrder) /\ CurOrder.qty <= 0) =>
        UNCHANGED ledger ]_vars

\* C17: the callback cannot change the ledger.  The step that calls on_data
\* leaves the ledger's balances and the price book as they were, also when
\* the callback assigns to the balances mapping it received.
C17_CallbackReadsSnapshot ==
  [][ pc = "strategy" => UNCHANGED <<balances, book>> ]_vars

\* C16: turnover accounting.  Turnover is 0 while nothing has executed and
\* every step adds to it exactly: qty*price + fee for a buy that executed, the gross proceeds
\* qty*price for a sell that executed, each at the price then current, and
\* nothing for a rejected order or for any other step; so it is the sum of
\* these amounts over the executed orders.
C16_TurnoverAccounting ==
  [][ /\ trade_count' = 0 => turnover' = 0
      /\ turnover' - turnover =
           IF pc = "orders" /\ ~Rejected(CurOrder)
           THEN IF CurOrder.side = "buy" THEN TotalOf(CurOrder) ELSE CostOf(CurOrder)
           ELSE 0 ]_vars

\* C16 witness: a buy and a sell of qty 1 at 100 have executed, and a third
\* order was rejected
C16_Witness ==
  /\ trade_count = 2
  /\ turnover = 1000200 + 1000000
  /\ total_fees_paid = 400
  /\ harness = "trade"
  /\ Len(result) = 3

\* the price book with the rows of the groups 1..g applied
RECURSIVE LastCloseUpTo(_, _, _)
LastCloseUpTo(p, g, r) ==
  IF g = 0 THEN None
  ELSE IF r = 0 THEN LastCloseUpTo(p, g - 1, IF g = 1 THEN 0 ELSE Len(combined_data[g - 1]))
  ELSE IF combined_data[g][r].symbol = p THEN combined_data[g][r].close
  ELSE LastCloseUpTo(p, g, r - 1)
BookAt(g) == [p \in Pairs |-> LastCloseUpTo(p, g, Len(combined_data[g]))]

\* the balances an order leaves, by the buy and sell laws
ApplyOrder(bal, o, bk) ==
  LET price == bk[o.pair]
      cost == o.qty * price
      feeAmt == (cost * fee) \div BPS
      q == Quote(o.pair)
      b == Base(o.pair)
  IN  IF price = None THEN bal
      ELSE IF o.side = "buy" /\ bal[q] >= cost + feeAmt
           THEN [bal EXCEPT ![q] = @ - (cost + feeAmt), ![b] = @ + o.qty]
      ELSE IF o.side = "sell" /\ bal[b] >= o.qty
           THEN [bal EXCEPT ![q] = @ + (cost - feeAmt), ![b] = @ - o.qty]
      ELSE bal

RECURSIVE ApplyBatch(_, _, _, _)
ApplyBatch(bal, orders, i, bk) ==
  IF i > Len(orders) THEN bal
  ELSE ApplyBatch(ApplyOrder(bal, orders[i], bk), orders, i + 1, bk)

\* the initial balances with the orders returned at the groups g..k-1 applied
RECURSIVE BalancesBefore(_, _, _)
BalancesBefore(bal, g, k) ==
  IF g >= k THEN bal
  ELSE BalancesBefore(ApplyBatch(bal, returned[g].orders, 1, BookAt(g)), g + 1, k)

\* C18: the balances passed to the callback.  At Tick Group k on_data is
\* given the ledger's current balances: the initial balances with exactly
\* the executed orders of all groups before k applied.
C18_CallbackBalances ==
  [][ pc = "strategy" =>
        /\ arg_balances' = balances
        /\ arg_balances' = BalancesBefore(initial_balances, 1, gi) ]_vars

\* C18 witness: the callback of the second group was given balances that a
\* buy of the first group had changed
C18_Witness ==
  /\ Len(returned) = 2
  /\ pc = "orders"
  /\ ai = 1
  /\ arg_balances["token_1"] = initial_balances["token_1"] + 1 * BPS
  /\ arg_balances["fiat"] < initial_balances["fiat"]

\* C19: price book update.  update_market(pair, tick) sets the latest price
\* of the pair to the tick's close and leaves the other pairs' prices; it
\* sets the pair's first-seen price only if none was recorded, and a
\* recorded first-seen price never changes in any step.
C19_PriceBookUpdate ==
  [][ /\ pc = "ticks" =>
           LET row == combined_data[gi][ri]
           IN  /\ prices' = [prices EXCEPT ![row.symbol] = row.close]
               /\ first_prices' = IF first_prices[row.symbol] = None
                                  THEN [first_prices EXCEPT ![row.symbol] = row.close]
                                  ELSE first_prices
      /\ \A p \in Pairs : first_prices[p] # None => first_prices'[p] = first_prices[p]
    ]_vars

\* C19 witness: a pair has ticked twice at different closes
C19_Witness ==
  /\ first_prices["token_1/fiat"] = 100
  /\ prices["token_1/fiat"] = 110
  /\ first_prices["token_1/token_2"] = None

\* C20: frame of execute and of tick ingestion.  A call of execute leaves
\* the latest prices, the first-seen prices, the fee rate and the equity
\* history unchanged; update_market leaves the balances and the three
\* counters unchanged; and prices change in no step but a tick ingestion.
C20_Frame ==
  [][ /\ pc = "orders" => UNCHANGED <<prices, first_prices, first_update, fee, equity_history>>
      /\ pc = "ticks" => UNCHANGED <<balances, turnover, total_fees_paid, trade_count, fee>>
      /\ (prices' # prices \/ first_prices' # first_prices) => pc = "ticks" ]_vars

\* C20 witness: an order has executed and a tick has been ingested after it
C20_Witness ==
  /\ trade_count >= 1
  /\ gi = 2
  /\ pc = "ticks"
  /\ ri = 2
  /\ prices # first_prices

\* C21: run lifecycle and termination.  Every run of a strategy whose
\* callback returns goes through streaming and finalizing to its end: it
\* hands back its result, having called the callback once for each
\* timestamp of the stream, in ascending order and never twice.
C21_RunTerminates ==
  <>(pc = "reported" /\ Len(returned) = Len(combined_data))

\* the orders a run_backtest records when its process draws its
\* identifiers from the source src: every returned order, in order, with the
\* timestamp of its group and a fresh uuid4
RECURSIVE RecordedFrom(_, _, _, _)
RecordedFrom(src, g, i, acc) ==
  IF g > Len(returned) THEN acc
  ELSE IF i > Len(returned[g].orders) THEN RecordedFrom(src, g + 1, 1, acc)
  ELSE RecordedFrom(src, g, i + 1,
         Append(acc, returned[g].orders[i]
                       @@ [timestamp |-> g, id |-> uuid4(src, Len(acc) + 1)]))

\* C22: determinism.  A second run on the same tick stream, balances, fee
\* and strategy returns gives the identical run result; for run_backtest,
\* whose result is its frame of recorded orders: whichever process runs it,
\* the frame is the same.
C22_Determinism ==
  (pc = "reported" /\ harness = "trade") =>
    \A src \in EntropySources : res.trades = RecordedFrom(src, 1, 1, <<>>)

\* the highest of the first t values of an equity curve
RunningMax(eq, t) ==
  CHOOSE m \in { eq[i] : i \in 1..t } : \A i \in 1..t : eq[i] <= m

\* C23: drawdown bound.  For a non-empty equity curve of positive values
\* max_drawdown is the least of (equity[t] - runningMax[t]) / runningMax[t],
\* lies in (-1, 0], and is 0 exactly when the curve never falls.
C23_DrawdownBound ==
  pc = "measured" =>
    LET eq == equity_history
        n == Len(eq)
        d == res.max_dd
    IN  /\ d[2] > 0
        /\ \A t \in 1..n :
             d[1] * RunningMax(eq, t) <= (eq[t] - RunningMax(eq, t)) * d[2]
        /\ \E t \in 1..n :
             d[1] * RunningMax(eq, t) = (eq[t] - RunningMax(eq, t)) * d[2]
        /\ -d[2] < d[1]
        /\ d[1] <= 0
        /\ (d[1] = 0) <=> (\A t \in 1..(n - 1) : eq[t] <= eq[t + 1])

\* C23 witness: a curve that fell by two thirds from its first peak and
\* then rose above it
C23_Witness ==
  /\ pc = "measured"
  /\ equity_history = <<2, 3, 1, 3>>
  /\ res.max_dd[1] * 3 = -2 * res.max_dd[2]

\* C24: Sharpe definedness.  The Sharpe value is a defined number whenever
\* the equity curve has at least two samples, and undefined only when it
\* has fewer.
C24_SharpeDefined ==
  pc = "measured" => (res.sharpe.nan <=> Len(equity_history) < 2)

\* C25: score formula.  The score is 0.7 * sharpe - 0.2 * |maxDrawdown|
\* - 0.1 * (turnover / 1000000); so with sharpe and drawdown fixed a larger
\* turnover gives a strictly lower score, and a deeper drawdown never a
\* higher one.
C25_ScoreFormula ==
  pc = "scored" =>
    /\ res.score = 7 * res.sharpe
                   - 2 * (IF res.max_dd < 0 THEN -res.max_dd ELSE res.max_dd)
                   - res.turnover \div 10000
    /\ \A t2 \in TurnoverInputs :
         t2 > res.turnover => score(res.sharpe, res.max_dd, t2) < res.score
    /\ \A d2 \in DrawdownInputs :
         d2 < res.max_dd => score(res.sharpe, d2, res.turnover) <= res.score

\* C25 witness: sharpe 0.8, drawdown -0.5 and turnover 250 score 0.4599750
C25_Witness ==
  /\ pc = "scored"
  /\ res.sharpe = 800000
  /\ res.max_dd = -500000
  /\ res.turnover = 2500000
  /\ res.score = 4599750

\* C26: execute reports its outcome.  A call of execute returns true
\* exactly when the order was applied, and a false value when it was
\* skipped or rejected.
C26_ExecuteReports ==
  [][ pc = "orders" =>
        ( (execute_value(Ledger, prices, fee, CurOrder) = "True")
            <=> ~(UNCHANGED ledger) ) ]_vars

\* C27: each executed order costs exactly its fee.  An executed buy or sell
\* on a fiat-quoted pair leaves the portfolio value, taken at the unchanged
\* prices, at its value before minus the fee qty * price * feeRate; so no
\* order on a fiat-quoted pair raises the portfolio value.
C27_OrderCostsItsFee ==
  [][ (pc = "orders" /\ Quote(CurOrder.pair) = "fiat") =>
        /\ ~Rejected(CurOrder) =>
             calculate_portfolio_value(balances', prices)
               = calculate_portfolio_value(balances, prices) - FeeOf(CurOrder)
        /\ calculate_portfolio_value(balances', prices)
             <= calculate_portfolio_value(balances, prices) ]_vars

\* C27 witness: one of two token_2 has been sold for fiat at 50, and the
\* portfolio is worth the fee of 0.01 less than before
C27_Witness ==
  /\ trade_count = 1
  /\ balances = [fiat |-> 1000200 + 500000 - 100, token_1 |-> 10000, token_2 |-> 10000]
  /\ prices["token_2/fiat"] = 50
  /\ calculate_portfolio_value(balances, prices)
       = calculate_portfolio_value(initial_balances, prices) - 100

\* C28: final equity matches final holdings.  The final_equity of the run
\* result is the portfolio value of the reported final balances at the
\* reported final prices, also when orders executed at the last timestamp.
C28_FinalEquity ==
  (pc = "reported" /\ harness = "engine") =>
    res.final_equity = calculate_portfolio_value(res.final_balances, res.current_prices)

C29_ReplayFaithful ==
  pc = "scored" =>
    /\ balances = backtest.balances
    /\ turnover = backtest.turnover
    /\ total_fees_paid = backtest.total_fees_paid
    /\ trade_count = backtest.trade_count
    /\ equity_history = backtest.equity_history

\* the close of the first row of pair p among the rows ingested so far: the
\* groups before gi, and the rows of group gi before ri (None: no such row)
RECURSIVE FirstIngestedFrom(_, _, _, _, _)
FirstIngestedFrom(p, g, r, gEnd, rEnd) ==
  IF g > Len(combined_data) \/ g > gEnd \/ (g = gEnd /\ r >= rEnd) THEN None
  ELSE IF r > Len(combined_data[g]) THEN FirstIngestedFrom(p, g + 1, 1, gEnd, rEnd)
  ELSE IF combined_data[g][r].symbol = p THEN combined_data[g][r].close
  ELSE FirstIngestedFrom(p, g, r + 1, gEnd, rEnd)

\* the three records of the price book agree with one another and with the
\* rows ingested up to the position (g, r) of the loop
KnowledgeConsistent(pr, fp, fu, g, r) ==
  \A p \in Pairs :
    /\ fu[p] <=> fp[p] # None
    /\ fp[p] # None <=> pr[p] # None
    /\ fp[p] = FirstIngestedFrom(p, 1, 1, g, r)

\* C31: price knowledge is monotone and consistent.  In every state and for
\* every pair, first_update[pair] is true iff first_prices[pair] is set iff
\* prices[pair] is set; a latest price that is known is still known after any
\* step; and first_prices[pair] is the close of the first tick ingested for
\* the pair (None while none was).
C31_PriceKnowledge ==
  [][ /\ KnowledgeConsistent(prices, first_prices, first_update, gi, ri)
      /\ KnowledgeConsistent(prices', first_prices', first_update', gi', ri')
      /\ \A p \in Pairs : prices[p] # None => prices'[p] # None
    ]_vars

\* C31 witness: the run is over; two pairs ticked at both timestamps, at
\* different closes, and the third never
C31_Witness ==
  /\ pc = "reported"
  /\ first_update = [p \in Pairs |-> p # "token_2/fiat"]
  /\ first_prices["token_1/token_2"] = 2
  /\ prices["token_1/token_2"] = 4
  /\ first_prices["token_1/fiat"] = 100
  /\ prices["token_1/fiat"] = 110
  /\ prices["token_2/fiat"] = None
  /\ first_prices["token_2/fiat"] = None

\* C32: an unknown side is a no-op.  A call of execute with an order on a
\* known pair that has a price, with a numeric quantity and a side that is
\* neither "buy" nor "sell", leaves the balances, turnover, fees paid and
\* trade count as they were, and the run goes on.
C32_UnknownSideNoOp ==
  [][ ( /\ pc = "orders"
        /\ CurOrder.pair \in Pairs
        /\ prices[CurOrder.pair] # None
        /\ CurOrder.qty # NonNumeric
        /\ CurOrder.side \notin {"buy", "sell"} ) =>
        /\ UNCHANGED <<balances, turnover, total_fees_paid, trade_count>>
        /\ pc' \in {"orders", "ticks", "done"} ]_vars

\* C32 witness: run_backtest has processed a "hold" order on a priced pair
\* while the base balance covered its quantity, and goes on with the batch
C32_Witness ==
  /\ harness = "trade"
  /\ pc = "orders"
  /\ ai = 2
  /\ Len(result) = 1
  /\ result[1].side = "hold"
  /\ prices[result[1].pair] # None
  /\ balances[Base(result[1].pair)] >= result[1].qty
  /\ balances = initial_balances
  /\ trade_count = 0

\* C32 witness: run_multi_backtest was handed a lone "hold" order on a
\* priced pair while the base balance covered it, and reached its end
C32_WitnessEngine ==
  /\ harness = "engine"
  /\ pc = "reported"
  /\ Len(returned) = 1
  /\ returned[1].kind = "dict"
  /\ returned[1].orders[1].side = "hold"
  /\ prices["token_1/fiat"] # None
  /\ balances = initial_balances
  /\ balances["token_1"] >= 1 * BPS
  /\ trade_count = 0

====
